---- MODULE Spec2Model ----
(***************************************************************************)
(* A model of the self-edit pipeline of seal-agent:                        *)
(*   self_editor/validate.py          the sanitizer / validator            *)
(*   self_editor/save.py              the dedup index and the append log   *)
(*   self_editor/generate_selfedit.py the self-edit generator              *)
(*   self_editor/review_selfedits.py  the reviewer and the batch runner    *)
(*   research_agent.py                the interactive flow                 *)
(*                                                                         *)
(* Text.  A Python str is modelled as a run-length encoded sequence of     *)
(* runs <<ch, n>> (the character ch repeated n >= 1 times, adjacent runs   *)
(* of different characters), so that the real limits (240, 4000, 200) are  *)
(* reached with short sequences.  Two texts are equal exactly when their   *)
(* encodings are equal.                                                    *)
(***************************************************************************)
EXTENDS Integers, Sequences, FiniteSets, TLC

VARIABLES
    vIn,        \* validate_self_edit: the candidate mapping handed in
    vOut,       \* validate_self_edit: its outcome (NotCalled before the call)
    vAgain,     \* validate_self_edit: the outcome of a call on the record returned
    logFile,    \* data/self_edits.jsonl: the sequence of its lines
    indexFile,  \* data/self_edits_index.json
    calls,      \* history: the calls of append_self_edit made so far, in order
    rIn,        \* review_entry_with_llm: what llm.invoke does for the call
    rOut,       \* review_entry_with_llm: its outcome (NotCalled before the call)
    gIn,        \* generate_self_edit: what llm.invoke does for the call
    gOut,       \* generate_self_edit: its outcome (NotCalled before the call)
    mpc,        \* research_agent.main: where the run is
    console,    \* research_agent.main: what the run has printed so far
    runs,       \* research_agent.main: the number of runs started
    bInput,     \* batch run: the input log, a sequence of lines
    bOutput,    \* batch run: the output log, a sequence of lines
    bIndex,     \* batch run: the keys of reviewed_index
    bCount,     \* batch run: processed, appended, skipped, failed
    bpc,        \* batch run: "loop", "done" (main returned) or "aborted" (it raised)
    bRun,       \* batch run: the number of the run (1, 2, ...)
    bDisp,      \* history: what this run did with each line it has read
    bPrev       \* history: bDisp, bpc and bOutput at the end of the run before

valVars == <<vIn, vOut, vAgain>>
storeVars == <<logFile, indexFile, calls>>
revVars == <<rIn, rOut>>
genVars == <<gIn, gOut>>
mainVars == <<mpc, console, runs>>
batchVars == <<bInput, bOutput, bIndex, bCount, bpc, bRun, bDisp, bPrev>>
vars == <<vIn, vOut, vAgain, logFile, indexFile, calls, rIn, rOut, gIn, gOut, mpc, console, runs,
          bInput, bOutput, bIndex, bCount, bpc, bRun, bDisp, bPrev>>

(***************************************************************************)
(* Characters                                                              *)
(***************************************************************************)
SP == " "
NL == "\n"
\* [\x00-\x1f\x7f] of _CONTROL_RE, as far as the alphabet goes
Control == {NL}
\* what \s, str.strip() and str.split() take for whitespace
Whitespace == {SP, NL}

\* Python's None (JSON null): a value that is no text (no text has an empty run)
None == <<(<<"None", 0>>)>>

(***************************************************************************)
(* Text operators                                                          *)
(***************************************************************************)
RECURSIVE Norm(_)
\* canonical encoding: no empty run, no two adjacent runs of one character
Norm(s) ==
    IF s = <<>> THEN <<>>
    ELSE LET h == Head(s)
             r == Norm(Tail(s))
         IN  IF h[2] = 0 THEN r
             ELSE IF r /= <<>> /\ r[1][1] = h[1]
                  THEN <<(<<h[1], h[2] + r[1][2]>>)>> \o Tail(r)
                  ELSE <<h>> \o r

RECURSIVE TLen(_)
\* len(s)
TLen(s) == IF s = <<>> THEN 0 ELSE Head(s)[2] + TLen(Tail(s))

\* s + t
Concat(s, t) == Norm(s \o t)

RECURSIVE Take(_, _)
\* s[:k]
Take(s, k) ==
    IF s = <<>> \/ k <= 0 THEN <<>>
    ELSE IF Head(s)[2] >= k THEN <<(<<Head(s)[1], k>>)>>
         ELSE <<Head(s)>> \o Take(Tail(s), k - Head(s)[2])

RECURSIVE Drop(_, _)
\* s[k:]
Drop(s, k) ==
    IF s = <<>> \/ k <= 0 THEN s
    ELSE IF Head(s)[2] > k THEN <<(<<Head(s)[1], Head(s)[2] - k>>)>> \o Tail(s)
         ELSE Drop(Tail(s), k - Head(s)[2])

\* the character at 0-based index k of s (k < len(s))
CharAt(s, k) == Head(Drop(s, k))[1]

RECURSIVE LStrip(_)
LStrip(s) ==
    IF s = <<>> THEN <<>>
    ELSE IF Head(s)[1] \in Whitespace THEN LStrip(Tail(s)) ELSE s

RECURSIVE RStrip(_)
RStrip(s) ==
    IF s = <<>> THEN <<>>
    ELSE IF s[Len(s)][1] \in Whitespace THEN RStrip(SubSeq(s, 1, Len(s) - 1)) ELSE s

\* s.strip()
Strip(s) == RStrip(LStrip(s))

\* _CONTROL_RE.sub("", s)
SubControl(s) == Norm(SelectSeq(s, LAMBDA r : r[1] \notin Control))

\* re.sub(r"\s+", " ", s): every maximal run of whitespace becomes one space
SubSpaces(s) ==
    LET asSpace == [i \in 1..Len(s) |->
                      IF s[i][1] \in Whitespace THEN <<SP, s[i][2]>> ELSE s[i]]
        merged  == Norm(asSpace)
    IN  [i \in 1..Len(merged) |->
            IF merged[i][1] = SP THEN <<SP, 1>> ELSE merged[i]]

\* a split that leaves the last space at the end of the head
RSplitKeepsSpace(s) ==
    LET idx == {i \in 1..Len(s) : s[i][1] = SP}
    IN  IF idx = {} THEN s
        ELSE SubSeq(s, 1, CHOOSE j \in idx : \A k \in idx : k <= j)

\* s.rsplit(" ", 1)[0]: s up to its last space, all of s when it has none
RSplit1(s) ==
    LET idx == {i \in 1..Len(s) : s[i][1] = SP}
    IN  IF idx = {} THEN s
        ELSE LET i == CHOOSE j \in idx : \A k \in idx : k <= j
             IN  SubSeq(s, 1, i - 1)
                   \o (IF s[i][2] > 1 THEN <<(<<SP, s[i][2] - 1>>)>> ELSE <<>>)

\* len(s.split()): the number of maximal runs of non-whitespace
WordCount(s) ==
    Cardinality({i \in 1..Len(s) :
        /\ s[i][1] \notin Whitespace
        /\ (i = 1 \/ s[i - 1][1] \in Whitespace)})

\* the text "unknown"
T_unknown ==
    <<(<<"u", 1>>), (<<"n", 1>>), (<<"k", 1>>), (<<"n", 1>>), (<<"o", 1>>),
      (<<"w", 1>>), (<<"n", 1>>)>>

\* whether p is a prefix of s
IsPrefix(p, s) == TLen(p) <= TLen(s) /\ Take(s, TLen(p)) = p

(***************************************************************************)
(* self_editor/validate.py                                                 *)
(***************************************************************************)
MAX_QUESTION_LEN == 240
MAX_ANSWER_LEN == 4000

\* _clean_text; the values handed in are texts or None, and str(s) of a text
\* is the text
_clean_text(s) ==
    IF s = None THEN <<>>
    ELSE Strip(SubSpaces(SubControl(s)))

\* obj.get(k): None for a key the mapping does not have
Get(obj, k) == IF k \in DOMAIN obj THEN obj[k] ELSE None

\* obj.get(k, d)
GetOr(obj, k, d) == IF k \in DOMAIN obj THEN obj[k] ELSE d

\* Python truthiness of a text or None
Truthy(v) == v /= None /\ v /= <<>>

\* x or y
PyOr(x, y) == IF Truthy(x) THEN x ELSE y

Raise(msg) == [ok |-> FALSE, err |-> msg]

\* the value of an outcome variable before the call is made
NotCalled == [pending |-> TRUE]

Called(out) == "ok" \in DOMAIN out

\* the truncation of validate_self_edit, lines 50-55
TruncateDropsNothing(s, limit) == IF TLen(s) > limit THEN Take(s, limit) ELSE s

Truncate(s, limit) == IF TLen(s) > limit THEN RSplit1(Take(s, limit)) ELSE s

\* line 32
LocateQuestion(obj) ==
    PyOr(PyOr(Get(obj, "question"), Get(obj, "q")), Get(obj, "Question"))

\* line 33
LocateAnswer(obj) ==
    PyOr(PyOr(Get(obj, "answer"), Get(obj, "a")), Get(obj, "Answer"))

\* validate_self_edit(obj) for a mapping obj (a dict): [ok |-> TRUE, cleaned]
\* for the dict returned, [ok |-> FALSE, err] for the ValueError raised
validate_self_edit(obj) ==
    LET q == LocateQuestion(obj)
        a == LocateAnswer(obj)
        source == PyOr(PyOr(PyOr(Get(obj, "source"), Get(obj, "src")),
                            Get(obj, "Source")), <<>>)
        q_clean == _clean_text(q)
        a_clean == _clean_text(a)
        source_clean == PyOr(_clean_text(source), T_unknown)
        q_cut == Truncate(q_clean, MAX_QUESTION_LEN)
        a_cut == Truncate(a_clean, MAX_ANSWER_LEN)
    IN  IF q = None \/ a = None
        THEN Raise("self-edit missing 'question' or 'answer' fields")
        ELSE IF TLen(q_clean) = 0 THEN Raise("question is empty after cleaning")
        ELSE IF TLen(a_clean) = 0 THEN Raise("answer is empty after cleaning")
        ELSE IF WordCount(q_cut) < 3
             THEN Raise("question too short / not informative")
        ELSE IF WordCount(a_cut) < 2
             THEN Raise("answer too short / not informative")
        ELSE [ok |-> TRUE,
              cleaned |-> [question |-> q_cut, answer |-> a_cut,
                           source |-> source_clean]]

(***************************************************************************)
(* self_editor/save.py                                                     *)
(***************************************************************************)
\* hashlib.sha256(key).hexdigest(), taken to be free of collisions
Sha256(key) == <<"sha256", key>>

\* a digest that also covers the source of the record
HashWithSource(edit) ==
    Sha256(Concat(Concat(Concat(GetOr(edit, "question", <<>>), <<(<<NL, 1>>)>>),
                         GetOr(edit, "answer", <<>>)),
                  GetOr(edit, "source", <<>>)))

_hash_edit(edit) ==
    Sha256(Concat(Concat(GetOr(edit, "question", <<>>), <<(<<NL, 1>>)>>),
                  GetOr(edit, "answer", <<>>)))

\* the index file is missing, unreadable as JSON ("corrupt"), or holds a mapping
\* of digests to true, modelled by the set of its keys
_load_index(file) == IF file.state = "ok" THEN file.keys ELSE {}

_save_index(index) == [state |-> "ok", keys |-> index]

\* an update that leaves the new digest out
IndexWithout(idx, h) == idx

\* idx[h] = True
IndexWith(idx, h) == idx \cup {h}

\* datetime.utcnow().isoformat() + "Z" at time n >= 1: a text of its own
Timestamp(n) == <<(<<"T", n>>)>>

\* json.dumps(save_obj) + "\n": one line of the log, modelled by the object
SaveObj(edit, now) ==
    [question |-> edit["question"], answer |-> edit["answer"],
     source |-> GetOr(edit, "source", T_unknown),
     created_at |-> Timestamp(now)]

\* a log opened for writing instead of appending
WriteLine(log, line) == <<line>>

\* open(OUT_PATH, "a") and fh.write(...), lines 52-53
AppendLine(log, line) == Append(log, line)

\* append_self_edit(edit) at the time now; edit has the keys question and answer
append_self_edit(edit, now) ==
    LET idx == _load_index(indexFile)
        h == _hash_edit(edit)
        call == [edit |-> edit, logBefore |-> logFile, indexBefore |-> indexFile]
    IN  IF h \in idx
        THEN /\ calls' = Append(calls, call @@ [appended |-> FALSE])
             /\ UNCHANGED <<logFile, indexFile>>
        ELSE /\ logFile' = AppendLine(logFile, SaveObj(edit, now))
             /\ indexFile' = _save_index(IndexWith(idx, h))
             /\ calls' = Append(calls, call @@ [appended |-> TRUE])

(***************************************************************************)
(* Model responses.  The text of a response is a sequence of tokens:       *)
(*   LB  {      RB  }      WS  whitespace      PROSE  a word of prose      *)
(*   MEM the members of a JSON object ("accuracy": 0.9, ...), at least one *)
(*   NUM a JSON number                                                     *)
(* and the members MEM stands for are the mapping `fields` of the response.*)
(* A response whose call fails has fail = TRUE.                            *)
(***************************************************************************)
LB == "{"
RB == "}"
WS == "_"
PROSE == "p"
MEM == "M"
NUM == "5"
Tokens == {LB, RB, WS, PROSE, MEM, NUM}

\* values of the members: a number in hundredths, a boolean, null, a string
Num(n) == [num |-> n]
Bool(b) == [bool |-> b]
Null == [null |-> TRUE]
Str(x) == [str |-> x]
IsNum(v) == DOMAIN v = {"num"}
IsBool(v) == DOMAIN v = {"bool"}

\* t.strip() of a token sequence
RECURSIVE TokStrip(_)
TokStrip(t) ==
    IF t = <<>> THEN t
    ELSE IF Head(t) = WS THEN TokStrip(Tail(t))
    ELSE IF t[Len(t)] = WS THEN TokStrip(SubSeq(t, 1, Len(t) - 1))
    ELSE t

\* json.loads(t): whitespace is allowed around the value and between the
\* braces and the members
json_loads(t, fields) ==
    LET u == SelectSeq(t, LAMBDA x : x /= WS)
    IN  IF u = <<LB, RB>> THEN [ok |-> TRUE, kind |-> "dict", val |-> <<>>]
        ELSE IF u = <<LB, MEM, RB>> THEN [ok |-> TRUE, kind |-> "dict", val |-> fields]
        ELSE IF u = <<NUM>> THEN [ok |-> TRUE, kind |-> "number", val |-> <<>>]
        ELSE [ok |-> FALSE]

\* text.find(x), 0-based; -1 when x is not in the text
Find(t, x) ==
    IF \E i \in 1..Len(t) : t[i] = x
    THEN (CHOOSE i \in 1..Len(t) : t[i] = x /\ \A j \in 1..(i - 1) : t[j] /= x) - 1
    ELSE -1

\* text.rfind(x), 0-based; -1 when x is not in the text
RFind(t, x) ==
    IF \E i \in 1..Len(t) : t[i] = x
    THEN (CHOOSE i \in 1..Len(t) : t[i] = x /\ \A j \in (i + 1)..Len(t) : t[j] /= x) - 1
    ELSE -1

\* text[start:end] for 0 <= start
Slice(t, start, end) == SubSeq(t, start + 1, end)

(***************************************************************************)
(* self_editor/review_selfedits.py: the reviewer                           *)
(***************************************************************************)
APPROVAL_THRESHOLD == 70

NoValue == [ok |-> FALSE]

\* _extract_json: the longest text[start:end] from the first "{" that parses
_extract_json(t, fields) ==
    LET start == Find(t, LB)
        ends == {e \in (start + 1)..Len(t) : json_loads(Slice(t, start, e), fields).ok}
    IN  IF start = -1 \/ ends = {} THEN NoValue
        ELSE json_loads(Slice(t, start, CHOOSE e \in ends : \A f \in ends : f <= e), fields)

\* extract_first_json: [ok, kind, val] for a value, NoValue for None, and
\* [raised |-> "KeyError"] for matches[0] of a dict, which has no key 0
extract_first_json(t, fields) ==
    LET direct == json_loads(TokStrip(t), fields)
        matches == _extract_json(t, fields)
    IN  IF t = <<>> THEN NoValue
        ELSE IF direct.ok THEN direct
        ELSE IF ~matches.ok \/ DOMAIN matches.val = {} THEN NoValue
        ELSE [raised |-> "KeyError"]

\* float(v): numbers, booleans and numeric strings convert
FloatOf(v) ==
    IF IsNum(v) THEN [ok |-> TRUE, v |-> v.num]
    ELSE IF IsBool(v) THEN [ok |-> TRUE, v |-> IF v.bool THEN 100 ELSE 0]
    ELSE IF v = Str("0.90") THEN [ok |-> TRUE, v |-> 90]
    ELSE [ok |-> FALSE]

\* bool(v)
BoolOf(v) ==
    IF IsBool(v) THEN v.bool
    ELSE IF IsNum(v) THEN v.num /= 0
    ELSE IF v = Null THEN FALSE
    ELSE v.str /= ""

\* clip, in hundredths
clip(v) == IF v < 0 THEN 0 ELSE IF v > 100 THEN 100 ELSE v

\* round(x, 2) of x given in ten-thousandths: the nearest hundredth; which
\* one the float arithmetic gives for a tie is left open
Round2(x) ==
    IF x % 100 = 50 THEN {x \div 100, (x \div 100) + 1}
    ELSE IF x % 100 < 50 THEN {x \div 100}
    ELSE {(x \div 100) + 1}

\* the weights of accuracy and clarity exchanged
ScoreSwapped(accuracy, clarity, novelty) ==
    Round2(accuracy * 30 + clarity * 50 + novelty * 20)

\* line 123
Score(accuracy, clarity, novelty) ==
    Round2(accuracy * 50 + clarity * 30 + novelty * 20)

\* line 124
Approved(parsed, score) ==
    BoolOf(GetOr(parsed, "approved", Bool(score >= APPROVAL_THRESHOLD)))

\* lines 125-127
Remarks(parsed) ==
    LET remarks == Strip(GetOr(parsed, "remarks", <<>>))
    IN  IF TLen(remarks) > 200
        THEN Concat(RStrip(Take(remarks, 197)), <<(<<".", 3>>)>>)
        ELSE remarks

\* review_entry_with_llm: the set of its possible outcomes for a response
review_entry_with_llm(resp) ==
    LET parsed == extract_first_json(resp.text, resp.fields)
        acc == FloatOf(GetOr(parsed.val, "accuracy", Num(0)))
        cla == FloatOf(GetOr(parsed.val, "clarity", Num(0)))
        nov == FloatOf(GetOr(parsed.val, "novelty", Num(0)))
        accuracy == clip(acc.v)
        clarity == clip(cla.v)
        novelty == clip(nov.v)
    IN  IF resp.fail
        THEN {[kind |-> "error", error |-> "LLM invocation failed",
               debug_output |-> None]}
        ELSE IF "raised" \in DOMAIN parsed
        THEN {[kind |-> "raise", exc |-> parsed.raised]}
        ELSE IF ~parsed.ok
        THEN {[kind |-> "error", error |-> "failed to parse JSON from model response",
               debug_output |-> resp.text]}
        ELSE IF parsed.kind /= "dict" \/ ~acc.ok \/ ~cla.ok \/ ~nov.ok
        THEN {[kind |-> "error",
               error |-> "parsed JSON missing numeric fields or wrong type",
               parsed |-> parsed.val, debug_output |-> resp.text]}
        ELSE {[kind |-> "review", accuracy |-> accuracy, clarity |-> clarity,
               novelty |-> novelty, score |-> score,
               approved |-> Approved(parsed.val, score),
               remarks |-> Remarks(parsed.val),
               raw_model_output |-> None,
               parsed_model_json |-> parsed.val] :
                  score \in Score(accuracy, clarity, novelty)}

(***************************************************************************)
(* self_editor/generate_selfedit.py                                        *)
(***************************************************************************)
\* text[start:end] of Python, start possibly negative (counted from the end)
PySlice(t, start, end) ==
    LET from == IF start < 0 THEN (IF Len(t) + start < 0 THEN 0 ELSE Len(t) + start)
                ELSE start
    IN  SubSeq(t, from + 1, end)

\* generate_self_edit: the dict returned, None, or the exception that leaves
\* the function.  When llm.invoke raises, the handler's print of `text`, a
\* local that was never bound, raises UnboundLocalError.
generate_self_edit(resp) ==
    LET text == TokStrip(resp.text)
        start == Find(text, LB)
        end == RFind(text, RB) + 1
        data == json_loads(PySlice(text, start, end), resp.fields)
    IN  IF resp.fail THEN [kind |-> "raise", exc |-> "UnboundLocalError"]
        ELSE IF ~data.ok THEN [kind |-> "none"]
        ELSE IF data.kind /= "dict" THEN [kind |-> "none"]
        ELSE IF ~("question" \in DOMAIN data.val /\ "answer" \in DOMAIN data.val)
             THEN [kind |-> "none"]
        ELSE [kind |-> "value", val |-> data.val]

(***************************************************************************)
(* self_editor/review_selfedits.py: the batch run                          *)
(*                                                                         *)
(* A line of a log is modelled by what line.strip() and json.loads make of *)
(* it: blank, no JSON ("garbage"), a JSON value that is no object          *)
(* ("list"), or an object ("dict", with its mapping).  The values of an    *)
(* object are texts or null (None).                                        *)
(***************************************************************************)
BlankLine == [kind |-> "blank"]
GarbageLine == [kind |-> "garbage"]
ListLine == [kind |-> "list"]
\* json.dumps(record) + "\n"
DictLine(f) == [kind |-> "dict", val |-> f]

\* (rec.get("question","") + "\n" + rec.get("answer","")).strip(), lines 156
\* and 197: [ok |-> FALSE] for the TypeError of None + "\n"
KeyOf(rec) ==
    LET q == GetOr(rec, "question", <<>>)
        a == GetOr(rec, "answer", <<>>)
    IN  IF q = None \/ a = None THEN [ok |-> FALSE]
        ELSE [ok |-> TRUE, key |-> Strip(Concat(Concat(q, <<(<<NL, 1>>)>>), a))]

\* load_existing_reviewed: the keys of the index built from the output log;
\* a line that is blank, does not parse, is no object or has a null
\* question or answer is passed over (the except of lines 158-159)
load_existing_reviewed(output) ==
    {KeyOf(output[i].val).key :
        i \in {j \in 1..Len(output) :
                  output[j].kind = "dict" /\ KeyOf(output[j].val).ok}}

\* lines 206-221: the Reviewed Record of an entry
OutputRecord(entry, review_result, now) ==
    [question |-> Get(entry, "question"),
     answer |-> Get(entry, "answer"),
     source |-> GetOr(entry, "source", T_unknown),
     created_at |-> Get(entry, "created_at"),
     reviewed_at |-> Timestamp(now),
     review |-> review_result,
     review_status |-> IF review_result.kind = "error" THEN "error" ELSE "ok"]

(***************************************************************************)
(* Inputs of the validator                                                 *)
(***************************************************************************)
MaxQRuns == 7
MaxARuns == 5

\* all texts of at most n runs drawn from R
TextsOf(R, n) == {Norm(s) : s \in UNION {[1..k -> R] : k \in 0..n}}

QRuns == {<<"a", 1>>, <<"a", 118>>, <<SP, 1>>, <<NL, 1>>}
ARuns == {<<"a", 1>>, <<"a", 3996>>, <<SP, 1>>}

\* questions of at most nq runs, answers of at most na runs
QTexts(nq) == TextsOf(QRuns, nq)
ATexts(na) == TextsOf(ARuns, na)

T_q3 == <<(<<"a", 1>>), (<<SP, 1>>), (<<"b", 1>>), (<<SP, 1>>), (<<"a", 1>>)>>
T_a2 == <<(<<"a", 1>>), (<<SP, 1>>), (<<"b", 1>>)>>
T_src == <<(<<"s", 1>>)>>

QSmall == {T_q3, <<>>}
ASmall == {T_a2, <<>>}
SrcVals == {T_src, <<(<<SP, 2>>)>>}

RECURSIVE JoinWords(_)
\* the words of the given lengths, joined by single spaces
JoinWords(ws) ==
    IF ws = <<>> THEN <<>>
    ELSE IF Len(ws) = 1 THEN <<(<<"a", ws[1]>>)>>
    ELSE <<(<<"a", ws[1]>>), (<<SP, 1>>)>> \o JoinWords(Tail(ws))

\* texts whose limit falls just before, on and just after the end of a word
QEdge == {JoinWords(<<1, 1, 1, n, 1>>) : n \in {233, 234, 235}}
AEdge == {JoinWords(<<1, 1, n, 1>>) : n \in {3995, 3996, 3997}}

\* an over-long question with a line break and doubled spaces in front
T_qdirty == <<(<<NL, 1>>), (<<SP, 2>>)>> \o JoinWords(<<1, 1, 1, 235, 1>>)

\* the candidate mappings handed to the validator
Candidates(nq, na) ==
    {[question |-> q, answer |-> T_a2] : q \in QEdge}
    \cup {[question |-> T_q3, answer |-> a] : a \in AEdge}
    \cup {[question |-> q, answer |-> a] : q \in QEdge, a \in AEdge}
    \cup
      {[question |-> q, answer |-> a] : q \in QTexts(nq), a \in ASmall}
    \cup {[question |-> q, answer |-> a] : q \in QSmall, a \in ATexts(na)}
    \cup {[question |-> T_q3, answer |-> T_a2, source |-> s] : s \in SrcVals}
    \cup {[q |-> T_q3, a |-> T_a2], [Question |-> T_q3, Answer |-> T_a2, src |-> T_src],
          [question |-> <<>>, q |-> T_q3, answer |-> T_a2],
          [question |-> None, answer |-> T_a2], [question |-> T_q3],
          [question |-> T_qdirty, answer |-> T_a2, source |-> <<(<<SP, 2>>)>>]}

IdleValidate == vIn = [question |-> None] /\ vOut = NotCalled /\ vAgain = NotCalled
IdleBatch ==
    /\ bInput = <<>> /\ bOutput = <<>> /\ bIndex = {}
    /\ bCount = [processed |-> 0, appended |-> 0, skipped |-> 0, failed |-> 0]
    /\ bpc = "idle" /\ bRun = 0 /\ bDisp = <<>> /\ bPrev = [run |-> 0]
IdleGen == gIn = [fail |-> TRUE] /\ gOut = NotCalled
IdleMain == mpc = "idle" /\ console = <<>> /\ runs = 0
IdleReview == rIn = [fail |-> TRUE] /\ rOut = NotCalled
IdleStore == logFile = <<>> /\ indexFile = [state |-> "missing", keys |-> {}] /\ calls = <<>>

InitValidate ==
    /\ vIn \in Candidates(MaxQRuns, MaxARuns)
    /\ vOut = NotCalled
    /\ vAgain = NotCalled
    /\ IdleStore
    /\ IdleReview
    /\ IdleGen
    /\ IdleMain
    /\ IdleBatch

Validate ==
    /\ vOut = NotCalled
    /\ vOut' = validate_self_edit(vIn)
    /\ UNCHANGED <<vIn, vAgain, storeVars, revVars, genVars, mainVars, batchVars>>

\* validate_self_edit called on the dict a first call returned
Revalidate ==
    /\ Called(vOut) /\ vOut.ok
    /\ vAgain = NotCalled
    /\ vAgain' = validate_self_edit(vOut.cleaned)
    /\ UNCHANGED <<vIn, vOut, storeVars, revVars, genVars, mainVars, batchVars>>

NextValidate ==
    \/ Validate
    \/ Revalidate

SpecValidate == InitValidate /\ [][NextValidate]_vars

(***************************************************************************)
(* The record store, called any number of times (up to MaxCalls)           *)
(***************************************************************************)
MaxCalls == 3

T_q3b == <<(<<"b", 1>>), (<<SP, 1>>), (<<"b", 1>>), (<<SP, 1>>), (<<"a", 1>>)>>
T_a2b == <<(<<"b", 1>>), (<<SP, 1>>), (<<"b", 1>>)>>
T_src2 == <<(<<"t", 1>>)>>

\* canonical records, and the same with a created_at of their own
Edits ==
    {[question |-> q, answer |-> a, source |-> s] :
        q \in {T_q3, T_q3b}, a \in {T_a2, T_a2b}, s \in {T_src, T_src2}}
    \cup {[question |-> q, answer |-> T_a2, source |-> T_src, created_at |-> Timestamp(9)] :
        q \in {T_q3, T_q3b}}
    \cup {[question |-> T_q3, answer |-> T_a2]}

InitStore ==
    /\ IdleValidate
    /\ IdleStore
    /\ IdleReview
    /\ IdleGen
    /\ IdleMain
    /\ IdleBatch

AppendSelfEdit ==
    /\ Len(calls) < MaxCalls
    /\ \E edit \in Edits : append_self_edit(edit, Len(calls) + 1)
    /\ UNCHANGED <<valVars, revVars, genVars, mainVars, batchVars>>

NextStore == AppendSelfEdit

SpecStore == InitStore /\ [][NextStore]_vars

\* the index file is found missing or unreadable: it was removed or damaged
\* between two calls
IndexDamaged ==
    /\ indexFile.state = "ok"
    /\ indexFile' \in {[state |-> "missing", keys |-> {}], [state |-> "corrupt", keys |-> {}]}
    /\ UNCHANGED <<logFile, calls, valVars, revVars, genVars, mainVars, batchVars>>

\* append_self_edit of a record whose identity is not in the index, in which
\* _save_index raises (lines 27-29): the log line is written already (line
\* 53); the index file is as it was, or cut short by open(INDEX_PATH, "w")
AppendIndexWriteFails ==
    /\ Len(calls) < MaxCalls
    /\ \E edit \in Edits :
          /\ _hash_edit(edit) \notin _load_index(indexFile)
          /\ logFile' = AppendLine(logFile, SaveObj(edit, Len(calls) + 1))
          /\ indexFile' \in {indexFile, [state |-> "corrupt", keys |-> {}]}
          /\ calls' = Append(calls, [edit |-> edit, logBefore |-> logFile,
                                     indexBefore |-> indexFile, raised |-> "OSError"])
    /\ UNCHANGED <<valVars, revVars, genVars, mainVars, batchVars>>

NextStoreFaults ==
    \/ AppendSelfEdit
    \/ AppendIndexWriteFails
    \/ IndexDamaged

\* the record store with an index file that may be lost or damaged and
\* index writes that may fail
SpecStoreFaults == InitStore /\ [][NextStoreFaults]_vars

\* the identity of the edit of call i was not in the index when the call began
FreshAt(i) == _hash_edit(calls[i].edit) \notin _load_index(calls[i].indexBefore)

\* the log after call i
LogAfter(i) == IF i = Len(calls) THEN logFile ELSE calls[i + 1].logBefore

\* C1: a record whose identity is not in the index, appended twice in a row,
\* is reported appended the first time and not appended the second, and the
\* log gains exactly one line over the two calls.
C1_Idempotence ==
    \A i \in 1..(Len(calls) - 1) :
        (calls[i + 1].edit = calls[i].edit /\ FreshAt(i)) =>
            /\ calls[i].appended
            /\ ~calls[i + 1].appended
            /\ Len(LogAfter(i + 1)) = Len(calls[i].logBefore) + 1

\* the same fresh record has been appended twice in a row
C1_Witness ==
    \E i \in 1..(Len(calls) - 1) :
        calls[i + 1].edit = calls[i].edit /\ FreshAt(i) /\ Len(calls[i].logBefore) > 0

\* C6: records with the same question and answer text have the same identity
\* whatever their source and created_at, and once one of them is stored,
\* appending the other reports appended=false and writes nothing to the log.
C6_KeySymmetry ==
    /\ \A e1, e2 \in Edits :
          (e1.question = e2.question /\ e1.answer = e2.answer)
              => _hash_edit(e1) = _hash_edit(e2)
    /\ \A i, j \in 1..Len(calls) :
          (/\ i < j
           /\ calls[i].appended
           /\ calls[j].edit.question = calls[i].edit.question
           /\ calls[j].edit.answer = calls[i].edit.answer)
              => /\ ~calls[j].appended
                 /\ LogAfter(j) = calls[j].logBefore

\* a record was stored and a later call appends one that differs from it in
\* source and in created_at only
C6_Witness ==
    \E i, j \in 1..Len(calls) :
        /\ i < j
        /\ calls[i].appended
        /\ calls[j].edit.question = calls[i].edit.question
        /\ calls[j].edit.answer = calls[i].edit.answer
        /\ GetOr(calls[j].edit, "source", <<>>) /= GetOr(calls[i].edit, "source", <<>>)
        /\ "created_at" \in DOMAIN calls[j].edit
        /\ "created_at" \notin DOMAIN calls[i].edit

(***************************************************************************)
(* The reviewer, called once on a response                                 *)
(***************************************************************************)
MaxRespLen == 5

T_ok == <<(<<"o", 1>>), (<<"k", 1>>)>>
T_long == <<(<<SP, 1>>), (<<"r", 196>>), (<<SP, 2>>), (<<"r", 10>>)>>

\* the response texts of at most n tokens
RespTexts(n) == UNION {[1..k -> Tokens] : k \in 0..n}

\* the members of a response with numbers for accuracy, clarity and novelty
NumericFields ==
    {f @@ g @@ [accuracy |-> Num(a), clarity |-> Num(c), novelty |-> Num(n),
                remarks |-> T_ok] :
        a \in {-20, 1, 80, 170}, c \in {0, 35, 60}, n \in {55, 100},
        f \in {<<>>, [score |-> Num(10)]},
        g \in {<<>>} \cup {[approved |-> v] :
                  v \in {Bool(TRUE), Bool(FALSE), Null, Str("false"), Str("")}}}

F_example == [accuracy |-> Num(90), clarity |-> Num(80), novelty |-> Num(50),
              approved |-> Bool(TRUE), remarks |-> T_ok]

\* members of which one of accuracy, clarity, novelty is absent or no number
MalformedFields ==
    {[k \in (DOMAIN F_example) \ {x} |-> F_example[k]] : x \in {"accuracy", "clarity", "novelty"}}
    \cup {[F_example EXCEPT ![x] = v] :
            x \in {"accuracy", "clarity", "novelty"},
            v \in {Null, Str("high"), Str("0.90"), Bool(TRUE)}}

ReviewFields ==
    NumericFields \cup MalformedFields
        \cup {[F_example EXCEPT !.remarks = T_long], [remarks |-> T_ok]}

ObjectTexts ==
    {<<LB, MEM, RB>>, <<WS, LB, MEM, RB, WS>>, <<PROSE, LB, MEM, RB>>,
     <<LB, MEM, RB, PROSE>>, <<PROSE, LB, MEM, RB, PROSE>>}

ReviewResponses(n) ==
    {[fail |-> FALSE, text |-> t, fields |-> f] :
        t \in RespTexts(n),
        f \in {F_example, [k \in {"clarity", "novelty", "remarks"} |-> F_example[k]]}}
    \cup {[fail |-> FALSE, text |-> t, fields |-> f] : t \in ObjectTexts, f \in ReviewFields}
    \cup {[fail |-> TRUE, text |-> <<>>, fields |-> F_example]}

InitReview ==
    /\ rIn \in ReviewResponses(MaxRespLen)
    /\ rOut = NotCalled
    /\ IdleValidate
    /\ IdleStore
    /\ IdleGen
    /\ IdleMain
    /\ IdleBatch

Review ==
    /\ rOut = NotCalled
    /\ rOut' \in review_entry_with_llm(rIn)
    /\ UNCHANGED <<rIn, valVars, storeVars, genVars, mainVars, batchVars>>

NextReview == Review

SpecReview == InitReview /\ [][NextReview]_vars

Reviewed == "kind" \in DOMAIN rOut

\* the response text is a JSON document as it stands
ParsesDirectly == ~rIn.fail /\ json_loads(TokStrip(rIn.text), rIn.fields).ok

NumericKeys == {"accuracy", "clarity", "novelty"}

\* the members carry a number for each of accuracy, clarity, novelty
AllNumeric(fields) == \A k \in NumericKeys : k \in DOMAIN fields /\ IsNum(fields[k])

\* the text is one object with members, with prose and whitespace around it
\* and at least one word of prose
ObjectInProse(t) ==
    \E i \in 1..Len(t) :
        /\ i + 2 <= Len(t)
        /\ SubSeq(t, i, i + 2) = <<LB, MEM, RB>>
        /\ \A j \in (1..Len(t)) \ (i..(i + 2)) : t[j] \in {PROSE, WS}
        /\ \E j \in 1..Len(t) : t[j] = PROSE

\* C3: a response that is no JSON document but holds a JSON object with
\* numeric accuracy, clarity and novelty, with prose before and/or after it,
\* is reviewed normally (a scored result, no error and no exception).
C3_Resilience ==
    (Reviewed /\ ~rIn.fail /\ ObjectInProse(rIn.text) /\ AllNumeric(rIn.fields))
        => rOut.kind = "review"

\* C7: when the response parses as JSON and one of accuracy, clarity, novelty
\* is missing from the object or is no number, the result is an error dict.
C7_MalformedFields ==
    (/\ Reviewed
     /\ ParsesDirectly
     /\ json_loads(TokStrip(rIn.text), rIn.fields).kind = "dict"
     /\ ~AllNumeric(json_loads(TokStrip(rIn.text), rIn.fields).val))
        => rOut.kind = "error"

\* the value the response gives for key k, 0 when it gives none
Given(k) == FloatOf(GetOr(rOut.parsed_model_json, k, Num(0))).v

\* C8: in every scored review accuracy, clarity and novelty are the given
\* values clipped into [0, 1] (0..100 hundredths), the score is
\* 0.5*accuracy + 0.3*clarity + 0.2*novelty of the clipped values rounded to
\* two decimals, lies in [0, 1] and does not depend on a score the model
\* supplied; 0.80/0.60/1.00 gives 0.78.
C8_Score ==
    (Reviewed /\ rOut.kind = "review") =>
        LET exact == 50 * rOut.accuracy + 30 * rOut.clarity + 20 * rOut.novelty
        IN  /\ \A k \in NumericKeys :
                 /\ rOut[k] \in 0..100
                 /\ rOut[k] = IF Given(k) < 0 THEN 0
                              ELSE IF Given(k) > 100 THEN 100 ELSE Given(k)
            /\ rOut.score \in 0..100
            /\ 100 * rOut.score - exact \in -50..50
            /\ (rOut.accuracy = 80 /\ rOut.clarity = 60 /\ rOut.novelty = 100)
                  => rOut.score = 78

\* a scored review of a response that supplied a score of its own and values
\* outside [0, 1]
C8_Witness ==
    /\ Reviewed /\ rOut.kind = "review"
    /\ "score" \in DOMAIN rOut.parsed_model_json
    /\ rOut.parsed_model_json.score /= Num(rOut.score)
    /\ Given("accuracy") > 100
    /\ rOut.accuracy = 100

\* C9: in every scored review, approved is the model's own value when the
\* response supplies a boolean for approved, and score >= 0.70 otherwise
\* (the key absent, or present with a value that is no boolean).
C9_Approval ==
    (Reviewed /\ rOut.kind = "review") =>
        LET p == rOut.parsed_model_json
        IN  rOut.approved =
              IF "approved" \in DOMAIN p /\ IsBool(p.approved)
              THEN p.approved.bool
              ELSE rOut.score >= APPROVAL_THRESHOLD

(***************************************************************************)
(* The generator, called once on a response                                *)
(***************************************************************************)
MaxGenLen == 5

T_q3pad == <<(<<SP, 1>>)>> \o T_q3 \o <<(<<NL, 1>>)>>
T_q1 == <<(<<"a", 3>>)>>

\* the members of a generator response
GenFields ==
    {[question |-> q, answer |-> T_a2, source |-> T_src] : q \in {T_q3, T_q3b, T_q3pad, T_q1}}
    \cup {[question |-> T_q3, answer |-> T_a2b], [question |-> T_q3],
          [answer |-> T_a2], [source |-> T_src],
          [question |-> None, answer |-> T_a2]}

GenResponses(n) ==
    {[fail |-> FALSE, text |-> t, fields |-> f] :
        t \in RespTexts(n), f \in {[question |-> T_q3, answer |-> T_a2, source |-> T_src]}}
    \cup {[fail |-> FALSE, text |-> t, fields |-> f] : t \in ObjectTexts, f \in GenFields}
    \cup {[fail |-> TRUE, text |-> <<>>, fields |-> [source |-> T_src]]}

InitGen ==
    /\ gIn \in GenResponses(MaxGenLen)
    /\ gOut = NotCalled
    /\ IdleValidate
    /\ IdleStore
    /\ IdleReview
    /\ IdleMain
    /\ IdleBatch

Generate ==
    /\ gOut = NotCalled
    /\ gOut' = generate_self_edit(gIn)
    /\ UNCHANGED <<gIn, valVars, storeVars, revVars, mainVars, batchVars>>

NextGen == Generate

SpecGen == InitGen /\ [][NextGen]_vars

Generated == "kind" \in DOMAIN gOut

\* the response holds, from its first "{" to its last "}", a JSON object
\* with the keys question and answer
UsableObject(resp) ==
    LET text == TokStrip(resp.text)
        obj == json_loads(PySlice(text, Find(text, LB), RFind(text, RB) + 1), resp.fields)
    IN  /\ Find(text, LB) >= 0
        /\ obj.ok /\ obj.kind = "dict"
        /\ {"question", "answer"} \subseteq DOMAIN obj.val

\* C4: generate_self_edit returns None and does not raise when the model
\* call fails, when the response holds no JSON object, when the extracted
\* text does not parse, and when the object lacks question or answer.
C4_GeneratorFailure ==
    (Generated /\ (gIn.fail \/ ~UsableObject(gIn))) => gOut.kind = "none"

(***************************************************************************)
(* research_agent.py: the interactive flow, run up to MaxRuns times over   *)
(* the same store.  gOut, vOut and rOut are main's raw_edit, cleaned and   *)
(* review_result; every call of a collaborator is one step.                *)
(***************************************************************************)
MaxRuns == 3

\* what the generator's model may answer in a run
MainGenResponses ==
    {[fail |-> FALSE, text |-> t, fields |-> f] :
        t \in {<<LB, MEM, RB>>, <<PROSE, LB, MEM, RB>>, <<PROSE>>},
        f \in {[question |-> T_q3pad, answer |-> T_a2, source |-> T_src],
                [question |-> T_q3b, answer |-> T_a2],
                [question |-> T_q1, answer |-> T_a2],
                [question |-> T_q3]}}
    \cup {[fail |-> TRUE, text |-> <<>>, fields |-> [source |-> T_src]]}

\* what the reviewer's model may answer in a run
MainReviewResponses ==
    {[fail |-> FALSE, text |-> t, fields |-> F_example] :
        t \in {<<LB, MEM, RB>>, <<PROSE, LB, MEM, RB>>, <<PROSE>>}}
    \cup {[fail |-> TRUE, text |-> <<>>, fields |-> F_example]}

InitMain ==
    /\ mpc = "start" /\ console = <<>> /\ runs = 1
    /\ IdleValidate
    /\ IdleStore
    /\ IdleReview
    /\ IdleGen
    /\ IdleBatch

\* lines 14-44: the environment, the search and the answer.  A missing
\* TAVILY_API_KEY, a failing search and a failing model call raise.
MainAnswer ==
    /\ mpc = "start"
    /\ \E outcome \in {"no key", "search fails", "model fails", "answer"} :
          IF outcome = "answer"
          THEN /\ console' = console \o <<"Environment loaded.", "FINAL RESPONSE">>
               /\ mpc' = "answered"
          ELSE IF outcome = "no key"
          THEN /\ console' = console
               /\ mpc' = "aborted"
          ELSE /\ console' = Append(console, "Environment loaded.")
               /\ mpc' = "aborted"
    /\ UNCHANGED <<runs, valVars, storeVars, revVars, genVars, batchVars>>

\* lines 45-55: raw_edit = generate_self_edit(...); if not raw_edit: ...
MainGenerate ==
    /\ mpc = "answered"
    /\ \E resp \in MainGenResponses :
          /\ gIn' = resp
          /\ gOut' = generate_self_edit(resp)
    /\ IF gOut'.kind = "raise"
       THEN mpc' = "aborted" /\ console' = console
       ELSE IF gOut'.kind = "none"
       THEN /\ mpc' = "done"
            /\ console' = Append(console, "No structured output from generator.")
       ELSE mpc' = "generated" /\ console' = console
    /\ UNCHANGED <<runs, valVars, storeVars, revVars, batchVars>>

\* lines 56-61: cleaned = validate_self_edit(raw_edit), in a try
MainValidate ==
    /\ mpc = "generated"
    /\ vIn' = gOut.val
    /\ vOut' = validate_self_edit(gOut.val)
    /\ IF vOut'.ok
       THEN mpc' = "validated" /\ console' = console
       ELSE mpc' = "done" /\ console' = Append(console, "Validation failed")
    /\ UNCHANGED <<runs, vAgain, storeVars, revVars, genVars, batchVars>>

\* a flow that goes on to the review whatever append_self_edit returned
MainAppendThenReview ==
    /\ mpc = "validated"
    /\ append_self_edit(vOut.cleaned, Len(calls) + 1)
    /\ mpc' = "saved"
    /\ console' = Append(console, IF calls'[Len(calls')].appended
                                   THEN "Saved new self-edit"
                                   ELSE "Duplicate detected")
    /\ UNCHANGED <<runs, valVars, revVars, genVars, batchVars>>

\* lines 62-65, 73-74: out_path, appended = append_self_edit(cleaned)
MainAppend ==
    /\ mpc = "validated"
    /\ append_self_edit(vOut.cleaned, Len(calls) + 1)
    /\ IF calls'[Len(calls')].appended
       THEN mpc' = "saved" /\ console' = Append(console, "Saved new self-edit")
       ELSE mpc' = "done" /\ console' = Append(console, "Duplicate detected")
    /\ UNCHANGED <<runs, valVars, revVars, genVars, batchVars>>

\* lines 66-72: review_result = review_entry_with_llm(llm, cleaned), in a try
MainReview ==
    /\ mpc = "saved"
    /\ \E resp \in MainReviewResponses :
          /\ rIn' = resp
          /\ rOut' \in review_entry_with_llm(resp)
    /\ console' = Append(console, IF rOut'.kind = "raise"
                                   THEN "Failed during review"
                                   ELSE "Self-Editor Review")
    /\ mpc' = "done"
    /\ UNCHANGED <<runs, valVars, storeVars, genVars, batchVars>>

\* the program is started again; the files are as the last run left them
MainRestart ==
    /\ mpc \in {"done", "aborted"}
    /\ runs < MaxRuns
    /\ runs' = runs + 1
    /\ mpc' = "start" /\ console' = <<>>
    /\ vIn' = [question |-> None] /\ vOut' = NotCalled /\ UNCHANGED vAgain
    /\ rIn' = [fail |-> TRUE] /\ rOut' = NotCalled
    /\ gIn' = [fail |-> TRUE] /\ gOut' = NotCalled
    /\ UNCHANGED <<storeVars, batchVars>>

NextMain ==
    \/ MainAnswer
    \/ MainGenerate
    \/ MainValidate
    \/ MainAppend
    \/ MainReview
    \/ MainRestart

SpecMain == InitMain /\ [][NextMain]_vars

AnswerShown == \E i \in 1..Len(console) : console[i] = "FINAL RESPONSE"

\* C5: once the answer has been produced it is shown, and no failure of the
\* self-edit steps after it (the generator's model call, its output, the
\* validation, the review) aborts the run: main() ends normally.
C5_FlowNeverAborts ==
    /\ (mpc \in {"answered", "generated", "validated", "saved", "done"}) => AnswerShown
    /\ AnswerShown => mpc /= "aborted"

(***************************************************************************)
(* The batch run main(input_path, output_path), run up to MaxBatchRuns     *)
(* times over the same input log; one step per line read.                  *)
(***************************************************************************)
MaxLines == 2
MaxBatchRuns == 2

E_1 == [question |-> T_q3, answer |-> T_a2, source |-> T_src, created_at |-> Timestamp(1)]
E_2 == [question |-> T_q3b, answer |-> T_a2, source |-> T_src, created_at |-> Timestamp(2)]
E_noq == [answer |-> T_a2, source |-> T_src]
E_nullq == [question |-> None, answer |-> T_a2]
\* the question of E_1 with a space in front
E_pad == [question |-> <<(<<SP, 1>>)>> \o T_q3, answer |-> T_a2, source |-> T_src,
          created_at |-> Timestamp(3)]

InputLines ==
    {BlankLine, GarbageLine, ListLine,
     DictLine(E_1), DictLine(E_2), DictLine(E_noq), DictLine(E_nullq),
     DictLine(E_pad)}

\* the input logs of at most n lines
InputLogs(n) == UNION {[1..k -> InputLines] : k \in 0..n}

\* what the reviewer's model may answer for a line
BatchResponses ==
    {[fail |-> FALSE, text |-> t, fields |-> F_example] :
        t \in {<<LB, MEM, RB>>, <<PROSE, LB, MEM, RB>>, <<PROSE>>}}
    \cup {[fail |-> FALSE, text |-> <<LB, MEM, RB>>,
           fields |-> [F_example EXCEPT !.accuracy = Str("high")]]}
    \cup {[fail |-> TRUE, text |-> <<>>, fields |-> F_example]}

ZeroCount == [processed |-> 0, appended |-> 0, skipped |-> 0, failed |-> 0]

\* a review that went well counted as failed
IncrMiscount(count, field) ==
    IF field = "appended" THEN [count EXCEPT !.failed = @ + 1]
    ELSE [count EXCEPT ![field] = @ + 1]

\* processed += 1, failed += 1, skipped += 1, appended += 1
Incr(count, field) == [count EXCEPT ![field] = @ + 1]

\* an index that forgets the line just reviewed
MarkNothing(index, key) == index

\* reviewed_index[key] = output_record, line 224
MarkReviewed(index, key) == index \cup {key}

\* lines 169-182 of a first run: the input log exists (main raises
\* FileNotFoundError before reading anything when it does not), no output
\* log yet
InitBatch ==
    /\ bInput \in InputLogs(MaxLines)
    /\ bOutput = <<>>
    /\ bIndex = load_existing_reviewed(<<>>)
    /\ bCount = ZeroCount
    /\ bpc = "loop" /\ bRun = 1 /\ bDisp = <<>> /\ bPrev = [run |-> 0]
    /\ IdleValidate
    /\ IdleStore
    /\ IdleReview
    /\ IdleGen
    /\ IdleMain

\* lines 185-224: one turn of the loop, for the next line of the input
BatchLine ==
    /\ bpc = "loop"
    /\ bCount.processed < Len(bInput)
    /\ LET line == bInput[bCount.processed + 1]
           count == Incr(bCount, "processed")
           key == KeyOf(line.val)
       IN  IF line.kind = "blank"
           THEN /\ bCount' = count
                /\ bDisp' = Append(bDisp, "blank")
                /\ UNCHANGED <<bOutput, bIndex, bpc, revVars>>
           ELSE IF line.kind = "garbage"
           THEN /\ bCount' = Incr(count, "failed")
                /\ bDisp' = Append(bDisp, "invalid")
                /\ UNCHANGED <<bOutput, bIndex, bpc, revVars>>
           ELSE IF line.kind = "list" \/ ~key.ok
           THEN \* entry.get of a list, None + "\n": the exception leaves main
                /\ bCount' = count
                /\ bDisp' = Append(bDisp, "raised")
                /\ bpc' = "aborted"
                /\ UNCHANGED <<bOutput, bIndex, revVars>>
           ELSE IF key.key \in bIndex
           THEN /\ bCount' = Incr(count, "skipped")
                /\ bDisp' = Append(bDisp, "skipped")
                /\ UNCHANGED <<bOutput, bIndex, bpc, revVars>>
           ELSE \E resp \in BatchResponses :
                \E result \in review_entry_with_llm(resp) :
                  /\ rIn' = resp
                  /\ rOut' = result
                  /\ IF result.kind = "raise"
                     THEN /\ bCount' = count
                          /\ bDisp' = Append(bDisp, "raised")
                          /\ bpc' = "aborted"
                          /\ UNCHANGED <<bOutput, bIndex>>
                     ELSE /\ bCount' = IF result.kind = "error"
                                       THEN Incr(count, "failed")
                                       ELSE Incr(count, "appended")
                          /\ bOutput' = Append(bOutput,
                                 DictLine(OutputRecord(line.val, result,
                                                       Len(bOutput) + 1)))
                          /\ bIndex' = MarkReviewed(bIndex, key.key)
                          /\ bDisp' = Append(bDisp,
                                 IF result.kind = "error" THEN "error" ELSE "ok")
                          /\ UNCHANGED bpc
    /\ UNCHANGED <<bInput, bRun, bPrev, valVars, storeVars, genVars, mainVars>>

\* lines 226-227: the input is read to its end, the counts are printed
BatchFinish ==
    /\ bpc = "loop"
    /\ bCount.processed = Len(bInput)
    /\ bpc' = "done"
    /\ UNCHANGED <<bInput, bOutput, bIndex, bCount, bRun, bDisp, bPrev,
                   valVars, storeVars, revVars, genVars, mainVars>>

\* lines 169-182 of a further run over the unchanged input log, the output
\* log as the run before left it
BatchRerun ==
    /\ bpc \in {"done", "aborted"}
    /\ bRun < MaxBatchRuns
    /\ bRun' = bRun + 1
    /\ bPrev' = [run |-> bRun, disp |-> bDisp, pc |-> bpc, output |-> bOutput]
    /\ bIndex' = load_existing_reviewed(bOutput)
    /\ bCount' = ZeroCount
    /\ bDisp' = <<>>
    /\ bpc' = "loop"
    /\ rIn' = [fail |-> TRUE] /\ rOut' = NotCalled
    /\ UNCHANGED <<bInput, bOutput, valVars, storeVars, genVars, mainVars>>

NextBatch ==
    \/ BatchLine
    \/ BatchFinish
    \/ BatchRerun

SpecBatch == InitBatch /\ [][NextBatch]_vars

\* C2: a second run over the unchanged input log, the output log as the
\* first run left it, appends no row to the output log, and skips every
\* line the first run reviewed.  (Stated for a first run that returned; a
\* first run that raised is not needed to refute it.)
C2_Reentrancy ==
    (bPrev.run >= 1 /\ bPrev.pc = "done") =>
        /\ bOutput = bPrev.output
        /\ \A i \in 1..Len(bDisp) :
              bPrev.disp[i] \in {"ok", "error"} => bDisp[i] = "skipped"

\* the cleaned question and answer of the candidate handed in
CleanQ == _clean_text(LocateQuestion(vIn))
CleanA == _clean_text(LocateAnswer(vIn))

\* out is cut from the cleaned text at the end of a whole word
CutAtWord(out, clean) ==
    /\ IsPrefix(out, clean)
    /\ TLen(out) < TLen(clean)
    /\ CharAt(clean, TLen(out)) = SP
    /\ out /= <<>> /\ out[Len(out)][1] /= SP

\* C10: every accepted question is at most MAX_QUESTION_LEN long and every
\* accepted answer at most MAX_ANSWER_LEN; a cleaned text over its limit is
\* returned as a prefix that ends at the end of a whole word, the character
\* after it in the cleaned text being a space.
C10_Truncation ==
    (Called(vOut) /\ vOut.ok) =>
        /\ TLen(vOut.cleaned.question) <= MAX_QUESTION_LEN
        /\ TLen(vOut.cleaned.answer) <= MAX_ANSWER_LEN
        /\ (TLen(CleanQ) > MAX_QUESTION_LEN => CutAtWord(vOut.cleaned.question, CleanQ))
        /\ (TLen(CleanA) > MAX_ANSWER_LEN => CutAtWord(vOut.cleaned.answer, CleanA))

\* an accepted candidate whose cleaned question was over the limit
C10_Witness ==
    Called(vOut) /\ vOut.ok /\ TLen(CleanQ) > MAX_QUESTION_LEN

\* an accepted candidate whose cleaned answer was over the limit
C10_WitnessAnswer ==
    Called(vOut) /\ vOut.ok /\ TLen(CleanA) > MAX_ANSWER_LEN

\* C11: validation is the identity on what it returns: for every record c
\* returned by validate_self_edit, validate_self_edit(c) succeeds and returns
\* the same question, answer and source.
C11_Idempotent ==
    Called(vAgain) =>
        /\ vAgain.ok
        /\ vAgain.cleaned.question = vOut.cleaned.question
        /\ vAgain.cleaned.answer = vOut.cleaned.answer
        /\ vAgain.cleaned.source = vOut.cleaned.source

\* the record of a first call that cleaned and cut the question it was given
\* has been validated again
C11_Witness ==
    /\ Called(vAgain)
    /\ TLen(CleanQ) > MAX_QUESTION_LEN
    /\ LocateQuestion(vIn) /= CleanQ

\* the accepted keys of the question and of the answer, in their order
QuestionKeys == <<"question", "q", "Question">>
AnswerKeys == <<"answer", "a", "Answer">>

\* a text is held under one of the keys
PresentUnder(obj, keys) ==
    \E i \in 1..Len(keys) : keys[i] \in DOMAIN obj /\ obj[keys[i]] /= None

\* the value under the first of the keys that the mapping has
FirstPresent(obj, keys) ==
    obj[keys[CHOOSE i \in 1..Len(keys) :
                /\ keys[i] \in DOMAIN obj /\ obj[keys[i]] /= None
                /\ \A j \in 1..(i - 1) : ~(keys[j] \in DOMAIN obj /\ obj[keys[j]] /= None)]]

EmptyField == {"question is empty after cleaning", "answer is empty after cleaning"}
InvalidInput == "self-edit missing 'question' or 'answer' fields"

\* C12: for a mapping that holds a question and an answer under accepted
\* keys, the first present key of each being the one used, the call fails
\* with EmptyField whenever the question or the answer cleans to the empty
\* text (the empty text itself included), and never with InvalidInput
\* ("missing"), which is for a field held under no accepted key.
C12_ErrorKinds ==
    (/\ Called(vOut)
     /\ PresentUnder(vIn, QuestionKeys)
     /\ PresentUnder(vIn, AnswerKeys)) =>
        /\ (\/ _clean_text(FirstPresent(vIn, QuestionKeys)) = <<>>
            \/ _clean_text(FirstPresent(vIn, AnswerKeys)) = <<>>)
               => (~vOut.ok /\ vOut.err \in EmptyField)
        /\ ~(~vOut.ok /\ vOut.err = InvalidInput)

\* the number of "{" minus the number of "}" in t[i..j]
Depth(t, i, j) ==
    Cardinality({k \in i..j : t[k] = LB}) - Cardinality({k \in i..j : t[k] = RB})

\* the "{" at i is closed at j
ClosedAt(t, i, j) ==
    /\ t[i] = LB /\ j > i /\ Depth(t, i, j) = 0
    /\ \A k \in i..(j - 1) : Depth(t, i, k) > 0

\* the text has a balanced {...} substring
HasBalanced(t) == \E i, j \in 1..Len(t) : ClosedAt(t, i, j)

\* the first balanced {...} substring of the text
FirstBalanced(t) ==
    LET i == CHOOSE a \in 1..Len(t) :
                 /\ \E j \in 1..Len(t) : ClosedAt(t, a, j)
                 /\ \A b \in 1..(a - 1) : ~\E j \in 1..Len(t) : ClosedAt(t, b, j)
        j == CHOOSE b \in 1..Len(t) : ClosedAt(t, i, b)
    IN  SubSeq(t, i, j)

\* C13: when the first balanced {...} substring of the response is a JSON
\* object with the keys question and answer, generate_self_edit returns that
\* object, whatever precedes or follows it (prose, further braces, a second
\* object).
C13_Extraction ==
    (/\ Generated /\ ~gIn.fail
     /\ HasBalanced(gIn.text)
     /\ json_loads(FirstBalanced(gIn.text), gIn.fields).ok
     /\ json_loads(FirstBalanced(gIn.text), gIn.fields).kind = "dict"
     /\ {"question", "answer"} \subseteq DOMAIN json_loads(FirstBalanced(gIn.text), gIn.fields).val)
        => (gOut.kind = "value" /\ gOut.val = gIn.fields)

\* the length of the output log when the current run began
OutputAtStart == IF bRun <= 1 THEN 0 ELSE Len(bPrev.output)

\* the lines read so far of which the run did one of the things in what
LinesThat(what) == {i \in 1..Len(bDisp) : bDisp[i] \in what}

\* the lines read so far that were reviewed and written to the output log
Written == LinesThat({"ok", "error"})

\* line i of the input is a JSON object with a question+answer key
Keyed(i) == bInput[i].kind = "dict" /\ KeyOf(bInput[i].val).ok

\* the place in the output log of the record written for line i
RecordOf(i) == OutputAtStart + Cardinality({k \in Written : k <= i})

\* C14: for every line that parses as JSON and whose key is not in the
\* reviewed index, whatever the model answers (unparsable text, JSON in
\* prose, malformed fields, a failing call), the run does not abort, exactly
\* one Reviewed Record for the line is appended, and its review_status is
\* error if the review result carries an error and ok otherwise.
C14_SoftFailure ==
    /\ Len(bOutput) = OutputAtStart + Cardinality(Written)
    /\ \A i \in 1..Len(bDisp) :
          (Keyed(i) /\ bDisp[i] /= "skipped") =>
              /\ bDisp[i] \in {"ok", "error"}
              /\ bOutput[RecordOf(i)].val.question = Get(bInput[i].val, "question")
              /\ bOutput[RecordOf(i)].val.answer = Get(bInput[i].val, "answer")
              /\ bOutput[RecordOf(i)].val.review_status =
                    IF bOutput[RecordOf(i)].val.review.kind = "error" THEN "error" ELSE "ok"

\* C15: within one run, once a line with key k has been reviewed (ok or
\* error), every later line with key k is counted as skipped, and the step
\* that skips a line calls no reviewer and writes nothing; so a run that
\* began with an empty output log has written one record for each reviewed
\* line and no two of them for the same key.
C15_OncePerKey ==
    /\ [](\A i, j \in 1..Len(bDisp) :
             (/\ i < j /\ i \in Written /\ Keyed(j)
              /\ KeyOf(bInput[j].val).key = KeyOf(bInput[i].val).key)
                 => (bDisp[j] = "skipped"))
    /\ [](Cardinality(LinesThat({"skipped"})) = bCount.skipped)
    /\ []((bRun = 1) =>
             (/\ Len(bOutput) = Cardinality(Written)
              /\ \A i, j \in Written :
                    (i /= j) => (KeyOf(bInput[i].val).key /= KeyOf(bInput[j].val).key)))
    /\ [][(Len(bDisp') = Len(bDisp) + 1 /\ bDisp'[Len(bDisp')] = "skipped")
             => UNCHANGED <<bOutput, rIn, rOut>>]_vars

\* in a first run a line was reviewed and a later line with its key, but not
\* with its text, was skipped
C15_Witness ==
    /\ bRun = 1
    /\ \E i, j \in 1..Len(bDisp) :
          /\ i < j /\ i \in Written /\ bDisp[j] = "skipped"
          /\ bInput[i] /= bInput[j]

\* C19: a line is skipped only if a reviewed record with exactly its
\* question text and exactly its answer text is in the reviewed index, and
\* two entries the run has read have the same skip key exactly when
\* _hash_edit gives them the same identity.
C19_KeyAgreement ==
    /\ \A j \in LinesThat({"skipped"}) :
          \E m \in 1..Len(bOutput) :
              /\ bOutput[m].val.question = Get(bInput[j].val, "question")
              /\ bOutput[m].val.answer = Get(bInput[j].val, "answer")
    /\ \A i, j \in 1..Len(bDisp) :
          (Keyed(i) /\ Keyed(j)) =>
              (KeyOf(bInput[i].val).key = KeyOf(bInput[j].val).key
                  <=> _hash_edit(bInput[i].val) = _hash_edit(bInput[j].val))

\* C20: at the end of a run processed = appended + skipped + failed, and
\* the number of lines the run added to the output log is the appended
\* counter.
C20_Counters ==
    (bpc = "done") =>
        /\ bCount.processed = bCount.appended + bCount.skipped + bCount.failed
        /\ Len(bOutput) - OutputAtStart = bCount.appended

\* C20 as amended: blank lines are counted in processed only, and a line
\* whose review carried an error is written to the output log and counted in
\* failed; the line at which a run raised is counted in processed only.
C20_CountersAmended ==
    /\ bCount.processed =
          bCount.appended + bCount.skipped + bCount.failed
            + Cardinality(LinesThat({"blank"})) + Cardinality(LinesThat({"raised"}))
    /\ bCount.failed = Cardinality(LinesThat({"invalid", "error"}))
    /\ Len(bOutput) - OutputAtStart = bCount.appended + Cardinality(LinesThat({"error"}))
    /\ (bpc = "done") => (bCount.processed = Len(bInput))

\* a run has ended that read a blank line and wrote the record of a review
\* that carried an error
C20_Witness ==
    /\ bpc = "done"
    /\ LinesThat({"blank"}) /= {}
    /\ LinesThat({"error"}) /= {}

\* the index file after call i
IndexAfter(i) == IF i = Len(calls) THEN indexFile ELSE calls[i + 1].indexBefore

\* C16: every call of append_self_edit leaves the lines already in the log
\* unchanged and in order (the old log is a prefix of the new one), and a
\* call for an identity that is in the index returns appended=false and
\* leaves the log file and the index file as they were.
C16_AppendOnly ==
    \A i \in 1..Len(calls) :
        /\ Len(calls[i].logBefore) <= Len(LogAfter(i))
        /\ SubSeq(LogAfter(i), 1, Len(calls[i].logBefore)) = calls[i].logBefore
        /\ ~FreshAt(i) =>
              (/\ ~calls[i].appended
               /\ LogAfter(i) = calls[i].logBefore
               /\ IndexAfter(i) = calls[i].indexBefore)

\* a call has appended to a log that held a line, and a call has found its
\* identity in the index
C16_Witness ==
    /\ \E i \in 1..Len(calls) : calls[i].appended /\ Len(calls[i].logBefore) > 0
    /\ \E i \in 1..Len(calls) : ~FreshAt(i)

\* C18: whatever calls of append_self_edit were made from an empty store,
\* also when the index file was found missing or corrupt or an index write
\* failed after the log line was written, the log holds at most one line for
\* each (question, answer) pair and the index holds the identity of every
\* line of the log.
C18_LogUniqueness ==
    /\ \A i, j \in 1..Len(logFile) :
          (i /= j) => ~(/\ logFile[i].question = logFile[j].question
                        /\ logFile[i].answer = logFile[j].answer)
    /\ \A i \in 1..Len(logFile) : _hash_edit(logFile[i]) \in _load_index(indexFile)

\* C17: a record is appended to the log only after validate_self_edit
\* succeeded on it in this run (never after a generator failure or a
\* validation failure), and the reviewer is called only for the record whose
\* append has just returned appended=true; a duplicate is never reviewed.
C17_FlowOrdering ==
    [][/\ (calls' /= calls) =>
             (/\ gOut.kind = "value"
              /\ Called(vOut) /\ vOut.ok
              /\ vOut = validate_self_edit(gOut.val)
              /\ calls' = Append(calls, calls'[Len(calls')])
              /\ calls'[Len(calls')].edit = vOut.cleaned)
       /\ (rOut' /= rOut /\ rOut' /= NotCalled) =>
             (/\ Len(calls) > 0
              /\ calls[Len(calls)].appended
              /\ calls[Len(calls)].edit = vOut.cleaned
              /\ console /= <<>>
              /\ console[Len(console)] = "Saved new self-edit")]_vars

\* a later run has ended at a duplicate, without a review, and the store
\* holds the record of an earlier run
C17_Witness ==
    /\ runs >= 2 /\ mpc = "done"
    /\ Len(calls) >= 2
    /\ calls[1].appended
    /\ ~calls[Len(calls)].appended
    /\ rOut = NotCalled
    /\ console[Len(console)] = "Duplicate detected"

====
